---- MODULE Spec2Model ----
(***************************************************************************)
(* COCO_dataset_extractor: COCOConverter (coco_to_yolo_extractor.py).      *)
(*                                                                         *)
(* The converter reads one COCO annotation file per split, selects image   *)
(* ids (or, for the test split, file names), copies the selected images    *)
(* and writes one label file per image and one manifest per split.         *)
(*                                                                         *)
(* Modelling conventions                                                   *)
(*  - Python None is the empty tuple <<>>, a present value x is <<x>>.     *)
(*  - A file name is a record [stem, ext]; os.path.splitext is the         *)
(*    projection on stem.                                                  *)
(*  - A float background_percentage is the rational k / BPDen, stored as   *)
(*    its numerator k.                                                     *)
(*  - A bounding box is an opaque token: the coordinates of a YOLO line    *)
(*    are carried along, their arithmetic is not modelled.                 *)
(*  - The file system is annotation_file (input) and out_images,           *)
(*    label_files, manifest (output).  Every image file a catalog names    *)
(*    exists in its image directory, so shutil.copy never raises.          *)
(*  - stdout is the sequence printed; only the reports of a skipped split  *)
(*    or a missing image record, and the "Processing" banner, are kept.    *)
(***************************************************************************)
EXTENDS Integers, Sequences, FiniteSets, TLC

VARIABLES
    self,                                \* the parsed arguments (self.<name>)
    annotation_file,                     \* split -> None | <<coco_data>>
    pc,                                  \* split being processed, "done" or "crashed"
    phase,                               \* position inside process_dataset
    printed,                             \* stdout
    coco_data,                           \* local of process_dataset
    unique_images_with_target_classes,   \* local of process_dataset
    unique_images_without_target_classes,\* local of process_dataset
    images_record,                       \* local of process_dataset
    labels_record,                       \* local of process_dataset
    test_images_to_extract,              \* local of process_dataset; None = unbound
    out_images,                          \* split -> files in <output_dir>/<split>/images
    label_files,                         \* split -> (label path -> content)
    manifest                             \* split -> None | <<lines of <split>.txt>>

vars == <<self, annotation_file, pc, phase, printed, coco_data,
          unique_images_with_target_classes, unique_images_without_target_classes,
          images_record, labels_record, test_images_to_extract,
          out_images, label_files, manifest>>

(***************************************************************************)
(* Bounds of the model.                                                    *)
(***************************************************************************)
\* longest annotation list of a whole-run catalog
MaxRunAnns == 2
\* longest annotation list of a selection catalog
MaxAnns == 4
\* background_percentage ranges over 0/BPDen .. MaxBP/BPDen
BPDen == 2
MaxBP == 3
\* longest target_classes list of the label specification
MaxTargets == 2
\* longest category list of the class-injection specification
MaxCats == 2

(***************************************************************************)
(* Values.                                                                 *)
(***************************************************************************)
None == <<>>
Some(x) == <<x>>

Splits == {"train", "valid", "test"}

Min(S) == CHOOSE x \in S : \A y \in S : x <= y
Max(S) == CHOOSE x \in S : \A y \in S : x >= y

RECURSIVE Perms(_)
\* every order in which a Python set (or a directory listing) may be iterated
Perms(S) ==
    IF S = {} THEN {<<>>}
    ELSE UNION {{<<x>> \o p : p \in Perms(S \ {x})} : x \in S}

RECURSIVE SeqsUpTo(_, _)
\* all sequences over S of length at most n
SeqsUpTo(S, n) ==
    IF n = 0 THEN {<<>>}
    ELSE LET shorter == SeqsUpTo(S, n - 1)
         IN shorter \cup {Append(q, x) : q \in {r \in shorter : Len(r) = n - 1}, x \in S}

File(stem, ext) == [stem |-> stem, ext |-> ext]
Image(id, file_name) == [id |-> id, file_name |-> file_name]
Category(id, name) == [id |-> id, name |-> name]
Annotation(image_id, category_id, bbox) ==
    [image_id |-> image_id, category_id |-> category_id, bbox |-> bbox]
CocoData(images, categories, annotations) ==
    [images |-> images, categories |-> categories, annotations |-> annotations]

Msg(text, split, image_id) == [text |-> text, split |-> split, image_id |-> image_id]

\* the k-th annotation of a generated list carries bounding box k
Numbered(pairs) ==
    [k \in DOMAIN pairs |-> Annotation(pairs[k][1], pairs[k][2], k)]

(***************************************************************************)
(* Lookups.                                                                *)
(***************************************************************************)
\* next((cat['name'] for cat in coco_data.get('categories', []) if cat['id'] == category_id), None)
CategoryName(cd, category_id) ==
    LET hits == {i \in DOMAIN cd.categories : cd.categories[i].id = category_id}
    IN IF hits = {} THEN None ELSE Some(cd.categories[Min(hits)].name)

\* next((img for img in coco_data['images'] if img['id'] == image_id), None)
ImageInfo(cd, image_id) ==
    LET hits == {i \in DOMAIN cd.images : cd.images[i].id = image_id}
    IN IF hits = {} THEN None ELSE Some(cd.images[Min(hits)])

\* category_name in self.target_classes
InTargetClasses(category_name) ==
    /\ category_name # None
    /\ \E i \in DOMAIN self.target_classes : self.target_classes[i] = category_name[1]

\* a changed TargetIndex: the last occurrence instead of the first
TargetIndex_Last(category_name) ==
    Max({i \in DOMAIN self.target_classes : self.target_classes[i] = category_name[1]}) - 1

\* self.target_classes.index(category_name): 0-based, first occurrence
TargetIndex(category_name) ==
    Min({i \in DOMAIN self.target_classes : self.target_classes[i] = category_name[1]}) - 1

(***************************************************************************)
(* extract_images_id (lines 183-206).                                      *)
(***************************************************************************)
\* a changed BackgroundFull: >= instead of >
BackgroundFull_AtLeast(size, num_img_with_target_classes) ==
    size * BPDen >= num_img_with_target_classes * self.background_percentage

\* len(unique_images) > num_img_with_target_classes * self.background_percentage
BackgroundFull(size, num_img_with_target_classes) ==
    size * BPDen > num_img_with_target_classes * self.background_percentage

\* (category_name in self.target_classes) == extract_target_images
Selects(cd, ann, extract_target_images) ==
    InTargetClasses(CategoryName(cd, ann.category_id)) = extract_target_images

RECURSIVE ScanIds(_, _, _, _, _)
\* the loop over coco_data['annotations'], from annotation k on
ScanIds(cd, k, unique_images, extract_target_images, num_img_with_target_classes) ==
    IF k > Len(cd.annotations) THEN unique_images
    ELSE LET ann == cd.annotations[k]
             added == unique_images \cup {ann.image_id}
         IN IF Selects(cd, ann, extract_target_images)
            THEN IF ~extract_target_images
                    /\ BackgroundFull(Cardinality(added), num_img_with_target_classes)
                 THEN added
                 ELSE ScanIds(cd, k + 1, added, extract_target_images,
                              num_img_with_target_classes)
            ELSE ScanIds(cd, k + 1, unique_images, extract_target_images,
                         num_img_with_target_classes)

extract_images_id(cd, extract_target_images, num_img_with_target_classes, extract_all) ==
    IF extract_all
    THEN {cd.images[i].id : i \in DOMAIN cd.images}
    ELSE ScanIds(cd, 1, {}, extract_target_images, num_img_with_target_classes)

(***************************************************************************)
(* extract_images_filename (lines 208-236).  The result is the set and     *)
(* what the scan printed.                                                  *)
(***************************************************************************)
RECURSIVE ScanFilenames(_, _, _, _, _, _)
ScanFilenames(cd, k, unique_images, out, extract_target_images, num_img_with_target_classes) ==
    IF k > Len(cd.annotations) THEN [unique_images |-> unique_images, printed |-> out]
    ELSE LET ann == cd.annotations[k]
             result_dict == ImageInfo(cd, ann.image_id)
             added == IF result_dict # None
                      THEN unique_images \cup {result_dict[1].file_name}
                      ELSE unique_images
             out2 == IF result_dict # None THEN out
                     ELSE Append(out, Msg("Image information was not found",
                                          "test", ann.image_id))
         IN IF Selects(cd, ann, extract_target_images)
            THEN IF ~extract_target_images
                    /\ BackgroundFull(Cardinality(added), num_img_with_target_classes)
                 THEN [unique_images |-> added, printed |-> out2]
                 ELSE ScanFilenames(cd, k + 1, added, out2, extract_target_images,
                                    num_img_with_target_classes)
            ELSE ScanFilenames(cd, k + 1, unique_images, out, extract_target_images,
                               num_img_with_target_classes)

extract_images_filename(cd, extract_target_images, num_img_with_target_classes, extract_all) ==
    IF extract_all
    THEN [unique_images |-> {cd.images[i].file_name : i \in DOMAIN cd.images},
          printed |-> <<>>]
    ELSE ScanFilenames(cd, 1, {}, <<>>, extract_target_images,
                       num_img_with_target_classes)

(***************************************************************************)
(* create_new_class (lines 238-249).  Catalogs hold at least one category, *)
(* so max() is defined.                                                    *)
(***************************************************************************)
\* a changed create_new_class: the category is appended without looking for the name
create_new_class_Always(cd) ==
    [cd EXCEPT !.categories =
        Append(@, Category(Max({cd.categories[i].id : i \in DOMAIN cd.categories}) + 1,
                           self.single_class_name))]

create_new_class(cd) ==
    LET named == {i \in DOMAIN cd.categories :
                    cd.categories[i].name = self.single_class_name}
        new_category_id == Max({cd.categories[i].id : i \in DOMAIN cd.categories}) + 1
    IN IF named # {} THEN cd
       ELSE [cd EXCEPT !.categories =
                Append(@, Category(new_category_id, self.single_class_name))]

(***************************************************************************)
(* coco_to_yolo_format (lines 152-181): the label text as its lines.       *)
(***************************************************************************)
\* a changed YoloClass: the merge flag is not read
YoloClass_Unmerged(category_name) == TargetIndex(category_name)

\* self.target_classes.index(category_name) if not self.create_single_class else 0
YoloClass(category_name) ==
    IF ~self.create_single_class THEN TargetIndex(category_name) ELSE 0

RECURSIVE YoloLines(_, _, _)
YoloLines(annotations, k, cd) ==
    IF k > Len(annotations) THEN <<>>
    ELSE LET ann == annotations[k]
             category_name == CategoryName(cd, ann.category_id)
         IN IF InTargetClasses(category_name)
            THEN <<[category_id |-> YoloClass(category_name), bbox |-> ann.bbox]>>
                 \o YoloLines(annotations, k + 1, cd)
            ELSE YoloLines(annotations, k + 1, cd)

coco_to_yolo_format(img_info, annotations, cd) == YoloLines(annotations, 1, cd)

(***************************************************************************)
(* convert_annotations (lines 251-289).  order is the order in which the   *)
(* set unique_images is iterated; st is the output directory of the split  *)
(* together with the two record lists.                                     *)
(***************************************************************************)
NoFiles == [p \in {} |-> <<>>]

\* os.path.join(dataset_type, 'images', img_info['file_name'])
ImagePath(prefix, dataset_type, file_name) ==
    [prefix |-> prefix, split |-> dataset_type, dir |-> "images", file |-> file_name]

\* splitext(file_name)[0] + ('.txt' | '.json') under 'labels' | 'annotations'
LabelPath(dataset_type, file_name) ==
    [split |-> dataset_type,
     dir |-> IF self.convert_to_yolo THEN "labels" ELSE "annotations",
     file |-> File(file_name.stem, IF self.convert_to_yolo THEN ".txt" ELSE ".json")]

\* the annotations of one image, in catalog order
AnnotationsOf(cd, img_id) ==
    SelectSeq(cd.annotations, LAMBDA ann : ann.image_id = img_id)

\* the body of the loop for one image id whose record was found
ConvertOne(img_id, img_info, cd, dataset_type, is_background, st) ==
    LET annotations == AnnotationsOf(cd, img_id)
        label_content ==
            IF is_background THEN <<>>
            ELSE IF self.convert_to_yolo
                 THEN coco_to_yolo_format(img_info, annotations, cd)
                 ELSE <<[annotations |-> annotations]>>
        label_filepath == LabelPath(dataset_type, img_info.file_name)
    IN [out_images |-> st.out_images \cup {img_info.file_name},
        images_record |-> Append(st.images_record,
                                 ImagePath("", dataset_type, img_info.file_name)),
        label_files |-> (label_filepath :> label_content) @@ st.label_files,
        labels_record |-> Append(st.labels_record, label_filepath)]

RECURSIVE convert_annotations(_, _, _, _, _)
convert_annotations(order, cd, dataset_type, is_background, st) ==
    IF order = <<>> THEN st
    ELSE LET img_id == Head(order)
             img_info == ImageInfo(cd, img_id)
         IN convert_annotations(
                Tail(order), cd, dataset_type, is_background,
                IF img_info # None
                THEN ConvertOne(img_id, img_info[1], cd, dataset_type, is_background, st)
                ELSE st)

(***************************************************************************)
(* random.sample(population, k).  A list population gives k distinct       *)
(* elements or raises ValueError when k exceeds its length.  A set         *)
(* population is converted first by Python up to 3.10 and raises TypeError *)
(* from Python 3.11 on: both outcomes are possible.  None is a raise.      *)
(***************************************************************************)
random_sample(population, k, is_set) ==
    (IF is_set THEN {None} ELSE {})
    \cup (IF k <= Cardinality(population)
          THEN {Some(S) : S \in {T \in SUBSET population : Cardinality(T) = k}}
          ELSE {None})

\* if self.test_num_images: a given 0 is falsy, like None
Truthy(optional_int) == optional_int # None /\ optional_int[1] # 0

(***************************************************************************)
(* The run: __init__ (lines 12-34) calls process_dataset (lines 36-150)    *)
(* for train, valid and test.                                              *)
(***************************************************************************)
\* the call that follows the call for dataset_type
NextSplit(dataset_type) ==
    CASE dataset_type = "train" -> "valid"
      [] dataset_type = "valid" -> "test"
      [] dataset_type = "test" -> "done"

\* self.single_class_name if self.create_single_class else None; not passed for test
SingleClassNameArg(dataset_type) ==
    IF dataset_type # "test" /\ self.create_single_class
    THEN Some(self.single_class_name) ELSE None

\* os.listdir(self.coco_image_dir_test)
listdir_test == {File("a", ".jpg"), File("b", ".jpg")}

\* a changed SkipSplit: the missing file ends the run
SkipSplit_Aborts(s) ==
    /\ pc = s /\ s # "test" /\ phase = "start"
    /\ annotation_file[s] = None
    /\ printed' = printed \o <<Msg("Processing", s, 0),
                               Msg("Could not find a COCO-format annotation file", s, 0)>>
    /\ pc' = "crashed"
    /\ UNCHANGED <<self, annotation_file, phase, coco_data,
                   unique_images_with_target_classes,
                   unique_images_without_target_classes, images_record,
                   labels_record, test_images_to_extract, out_images, label_files,
                   manifest>>

\* lines 55, 149-150: the annotation file of train or valid is absent
SkipSplit(s) ==
    /\ pc = s /\ s # "test" /\ phase = "start"
    /\ annotation_file[s] = None
    /\ printed' = printed \o <<Msg("Processing", s, 0),
                               Msg("Could not find a COCO-format annotation file", s, 0)>>
    /\ pc' = NextSplit(s)
    /\ UNCHANGED <<self, annotation_file, phase, coco_data,
                   unique_images_with_target_classes,
                   unique_images_without_target_classes, images_record,
                   labels_record, test_images_to_extract, out_images, label_files,
                   manifest>>

\* lines 55, 92-119: load, inject the single class, select the two sets
SelectImages(s) ==
    /\ pc = s /\ s # "test" /\ phase = "start"
    /\ annotation_file[s] # None
    /\ LET loaded == annotation_file[s][1]
           cd == IF SingleClassNameArg(s) # None THEN create_new_class(loaded)
                 ELSE loaded
           with == IF self.target_classes # <<>>
                   THEN extract_images_id(cd, TRUE, 0, FALSE)
                   ELSE extract_images_id(cd, TRUE, 0, TRUE)
           without == IF self.target_classes # <<>> /\ self.background_percentage > 0
                      THEN extract_images_id(cd, FALSE, Cardinality(with), FALSE)
                      ELSE {}
       IN /\ coco_data' = cd
          /\ unique_images_with_target_classes' = with
          /\ unique_images_without_target_classes' = without
    /\ printed' = Append(printed, Msg("Processing", s, 0))
    /\ images_record' = <<>>
    /\ labels_record' = <<>>
    /\ phase' = "targets"
    /\ UNCHANGED <<self, annotation_file, pc, test_images_to_extract, out_images,
                   label_files, manifest>>

\* the state convert_annotations works on, and its write-back
ConvertState(s) ==
    [out_images |-> out_images[s], images_record |-> images_record,
     label_files |-> label_files[s], labels_record |-> labels_record]

Converted(s, st) ==
    /\ out_images' = [out_images EXCEPT ![s] = st.out_images]
    /\ label_files' = [label_files EXCEPT ![s] = st.label_files]
    /\ images_record' = st.images_record
    /\ labels_record' = st.labels_record

\* lines 123-129: the pass over the images with target classes
ConvertTargets(s) ==
    /\ pc = s /\ phase = "targets"
    /\ \E order \in Perms(unique_images_with_target_classes) :
          Converted(s, convert_annotations(order, coco_data, s, FALSE, ConvertState(s)))
    /\ phase' = IF unique_images_without_target_classes # {}
                THEN "background" ELSE "save"
    /\ UNCHANGED <<self, annotation_file, pc, printed, coco_data,
                   unique_images_with_target_classes,
                   unique_images_without_target_classes, test_images_to_extract,
                   manifest>>

\* lines 131-140: the pass over the background images
ConvertBackground(s) ==
    /\ pc = s /\ phase = "background"
    /\ \E order \in Perms(unique_images_without_target_classes) :
          Converted(s, convert_annotations(order, coco_data, s, TRUE, ConvertState(s)))
    /\ phase' = "save"
    /\ UNCHANGED <<self, annotation_file, pc, printed, coco_data,
                   unique_images_with_target_classes,
                   unique_images_without_target_classes, test_images_to_extract,
                   manifest>>

\* lines 86-87 and 144-145: write <split>.txt, and return to __init__
SaveManifest(s) ==
    /\ pc = s /\ phase = "save"
    /\ manifest' = [manifest EXCEPT ![s] = Some(images_record)]
    /\ pc' = NextSplit(s)
    /\ phase' = "start"
    /\ UNCHANGED <<self, annotation_file, printed, coco_data,
                   unique_images_with_target_classes,
                   unique_images_without_target_classes, images_record,
                   labels_record, test_images_to_extract, out_images, label_files>>

\* lines 69-70 and 77: the optional cap; None when random.sample raises
Capped(pool, is_set) ==
    IF Truthy(self.test_num_images)
    THEN random_sample(pool, self.test_num_images[1], is_set)
    ELSE {Some(pool)}

\* lines 57-59 then the selection of the test images to a chosen outcome
TestSelected(outcome, out) ==
    /\ printed' = printed \o <<Msg("Processing", "test", 0)>> \o out
    /\ images_record' = <<>>
    /\ test_images_to_extract' = outcome
    /\ IF outcome = None
       THEN pc' = "crashed" /\ phase' = phase
       ELSE pc' = pc /\ phase' = "copy"
    /\ UNCHANGED <<self, annotation_file, coco_data,
                   unique_images_with_target_classes,
                   unique_images_without_target_classes, labels_record, out_images,
                   label_files, manifest>>

\* lines 62-70: only the test images with target classes
TestSelectTargets ==
    /\ pc = "test" /\ phase = "start"
    /\ self.test_only_target_classes
    /\ annotation_file["test"] # None
    /\ LET r == extract_images_filename(annotation_file["test"][1], TRUE, 0, FALSE)
       IN \E outcome \in Capped(r.unique_images, TRUE) :
             TestSelected(outcome, r.printed)

\* lines 72-73 then 79: the report, and the loop over the unbound name
TestMissingAnnotations ==
    /\ pc = "test" /\ phase = "start"
    /\ self.test_only_target_classes
    /\ annotation_file["test"] = None
    /\ printed' = printed \o <<Msg("Processing", "test", 0),
                               Msg("The annotation file for the test set was not found",
                                   "test", 0)>>
    /\ images_record' = <<>>
    /\ pc' = "crashed"
    /\ UNCHANGED <<self, annotation_file, phase, coco_data,
                   unique_images_with_target_classes,
                   unique_images_without_target_classes, labels_record,
                   test_images_to_extract, out_images, label_files, manifest>>

\* lines 76-77: every file of the test image directory
TestSelectAll ==
    /\ pc = "test" /\ phase = "start"
    /\ ~self.test_only_target_classes
    /\ \E outcome \in Capped(listdir_test, FALSE) : TestSelected(outcome, <<>>)

\* lines 79-83: copy the test images, in the order the collection is iterated
TestCopy ==
    /\ pc = "test" /\ phase = "copy"
    /\ \E order \in Perms(test_images_to_extract[1]) :
          /\ out_images' = [out_images EXCEPT
                              !["test"] = @ \cup {order[i] : i \in DOMAIN order}]
          /\ images_record' = [i \in DOMAIN order |->
                                 ImagePath(self.output_dir, "test", order[i])]
    /\ phase' = "save"
    /\ UNCHANGED <<self, annotation_file, pc, printed, coco_data,
                   unique_images_with_target_classes,
                   unique_images_without_target_classes, labels_record,
                   test_images_to_extract, label_files, manifest>>

process_dataset(s) ==
    \/ SkipSplit(s)
    \/ SelectImages(s)
    \/ ConvertTargets(s)
    \/ ConvertBackground(s)
    \/ SaveManifest(s)

Next ==
    \/ process_dataset("train")
    \/ process_dataset("valid")
    \/ TestSelectTargets
    \/ TestMissingAnnotations
    \/ TestSelectAll
    \/ TestCopy
    \/ SaveManifest("test")

(***************************************************************************)
(* The inputs of a whole run.                                              *)
(***************************************************************************)
RunImages == <<Image(1, File("a", ".jpg")), Image(2, File("b", ".jpg"))>>
RunCategories == <<Category(1, "cat"), Category(2, "dog")>>
\* <<image_id, category_id>>; image 3 has no record
RunAnnotationValues == {<<1, 1>>, <<1, 2>>, <<2, 2>>, <<3, 1>>}
RunCatalogs ==
    {CocoData(RunImages, RunCategories, Numbered(q)) :
        q \in SeqsUpTo(RunAnnotationValues, MaxRunAnns)}
RunTargetClasses == {<<>>, <<"cat">>, <<"dog", "cat">>}
RunTestNumImages == {None, Some(0), Some(1), Some(2)}

Arguments(target_classes, background_percentage, test_num_images, test_only_target_classes, create_single_class, single_class_name, convert_to_yolo) ==
    [output_dir |-> "new_dataset",
     target_classes |-> target_classes,
     background_percentage |-> background_percentage,
     test_num_images |-> test_num_images,
     test_only_target_classes |-> test_only_target_classes,
     create_single_class |-> create_single_class,
     single_class_name |-> single_class_name,
     convert_to_yolo |-> convert_to_yolo]

\* the state after parse_arguments and the makedirs of __init__, with cd loaded
StartedWith(cd) ==
    /\ pc = "train" /\ phase = "start"
    /\ printed = <<>>
    /\ coco_data = cd
    /\ unique_images_with_target_classes = {}
    /\ unique_images_without_target_classes = {}
    /\ images_record = <<>>
    /\ labels_record = <<>>
    /\ test_images_to_extract = None
    /\ out_images = [s \in Splits |-> {}]
    /\ label_files = [s \in Splits |-> NoFiles]
    /\ manifest = [s \in Splits |-> None]

Started == StartedWith(CocoData(<<>>, <<>>, <<>>))

Init ==
    /\ \E t \in RunTargetClasses, b \in {0, BPDen}, n \in RunTestNumImages,
          o \in BOOLEAN, c \in BOOLEAN, y \in BOOLEAN :
          self = Arguments(t, b, n, o, c, "new_class", y)
    /\ \E cd \in RunCatalogs, present \in SUBSET Splits :
          annotation_file = [s \in Splits |-> IF s \in present THEN Some(cd) ELSE None]
    /\ Started

Spec == Init /\ [][Next]_vars

(***************************************************************************)
(* Selection alone: extract_images_id as process_dataset calls it, over    *)
(* every annotation list up to MaxAnns of a train catalog.  Category id 9  *)
(* is in no catalog.                                                       *)
(***************************************************************************)
SelectImageList ==
    <<Image(1, File("a", ".jpg")), Image(2, File("b", ".jpg")),
      Image(3, File("c", ".jpg"))>>
SelectAnnotationValues == {1, 2, 3} \X {1, 2, 9}
SelectCatalogs ==
    {CocoData(SelectImageList, RunCategories, Numbered(q)) :
        q \in SeqsUpTo(SelectAnnotationValues, MaxAnns)}

InitSelect ==
    /\ \E t \in {<<"cat">>, <<"dog", "cat">>}, b \in 0..MaxBP :
          self = Arguments(t, b, None, FALSE, FALSE, "new_class", TRUE)
    /\ \E cd \in SelectCatalogs :
          annotation_file = [s \in Splits |-> IF s = "train" THEN Some(cd) ELSE None]
    /\ Started

NextSelect == SelectImages("train")

SpecSelect == InitSelect /\ [][NextSelect]_vars

(***************************************************************************)
(* Labels alone: the target pass of a train split in YOLO mode, over every *)
(* target_classes list up to MaxTargets.  Category id 3 is in no catalog   *)
(* until create_new_class mints it.                                        *)
(***************************************************************************)
ClassNames == {"cat", "dog", "new_class"}
YoloCategoryLists ==
    {<<Category(1, "cat"), Category(2, "dog")>>,
     <<Category(1, "dog"), Category(2, "cat")>>}
YoloAnnotationValues == {1, 2} \X {1, 2, 3}
YoloCatalogs ==
    {CocoData(RunImages, cats, Numbered(q)) :
        cats \in YoloCategoryLists, q \in SeqsUpTo(YoloAnnotationValues, MaxRunAnns)}

InitYolo ==
    /\ \E t \in SeqsUpTo(ClassNames, MaxTargets), c \in BOOLEAN :
          self = Arguments(t, 0, None, FALSE, c, "new_class", TRUE)
    /\ \E cd \in YoloCatalogs :
          annotation_file = [s \in Splits |-> IF s = "train" THEN Some(cd) ELSE None]
    /\ Started

NextYolo ==
    \/ SelectImages("train")
    \/ ConvertTargets("train")
    \/ SaveManifest("train")

SpecYolo == InitYolo /\ [][NextYolo]_vars

(***************************************************************************)
(* Class injection alone: create_new_class called again and again on one   *)
(* loaded catalog.  Category ids and names are unique in a catalog, and a  *)
(* catalog holds at least one category.                                    *)
(***************************************************************************)
CategoryLists ==
    {q \in SeqsUpTo({1, 2, 3} \X ClassNames, MaxCats) :
        /\ q # <<>>
        /\ \A i, j \in DOMAIN q : i # j => q[i][1] # q[j][1] /\ q[i][2] # q[j][2]}

InitClass ==
    /\ \E n \in {"new_class", "cat"} :
          self = Arguments(<<"cat">>, 0, None, FALSE, TRUE, n, TRUE)
    /\ \E q \in CategoryLists :
          LET cd == CocoData(RunImages, [i \in DOMAIN q |-> Category(q[i][1], q[i][2])],
                             <<>>)
          IN /\ annotation_file =
                    [s \in Splits |-> IF s = "train" THEN Some(cd) ELSE None]
             /\ StartedWith(cd)

\* line 99, taken once more
CreateNewClass ==
    /\ pc = "train" /\ phase \in {"start", "created_once", "created_again"}
    /\ coco_data' = create_new_class(coco_data)
    /\ phase' = IF phase = "start" THEN "created_once" ELSE "created_again"
    /\ UNCHANGED <<self, annotation_file, pc, printed,
                   unique_images_with_target_classes,
                   unique_images_without_target_classes, images_record,
                   labels_record, test_images_to_extract, out_images, label_files,
                   manifest>>

NextClass == CreateNewClass

SpecClass == InitClass /\ [][NextClass]_vars

(***************************************************************************)
(* What the claims read.                                                   *)
(***************************************************************************)
\* a train/valid split whose two sets have been selected
Selected(s) == pc = s /\ phase \in {"targets", "background", "save"}

\* the ids of the image records whose file is in the split's images directory
Materialized(s) ==
    {coco_data.images[i].id : i \in {j \in DOMAIN coco_data.images :
                                       coco_data.images[j].file_name \in out_images[s]}}

\* the annotation names a category whose name is a target class
HasTargetName(cd, ann) ==
    \E i \in DOMAIN cd.categories, j \in DOMAIN self.target_classes :
        /\ cd.categories[i].id = ann.category_id
        /\ cd.categories[i].name = self.target_classes[j]

\* the image ids with at least one annotation that names no target class
NonTargetImageIds(cd) ==
    {cd.annotations[k].image_id :
        k \in {h \in DOMAIN cd.annotations : ~HasTargetName(cd, cd.annotations[h])}}

\* the splits whose "Processing" banner was printed, in order
Processed ==
    LET banners == SelectSeq(printed, LAMBDA m : m.text = "Processing")
    IN [i \in DOMAIN banners |-> banners[i].split]

Reported(text, s, image_id) ==
    \E k \in DOMAIN printed : printed[k] = Msg(text, s, image_id)

\* the annotations of the image behind label file path that name a target class
TargetAnnotationsAt(path) ==
    {k \in DOMAIN coco_data.annotations :
        /\ HasTargetName(coco_data, coco_data.annotations[k])
        /\ \E i \in DOMAIN coco_data.images :
              /\ coco_data.images[i].id = coco_data.annotations[k].image_id
              /\ coco_data.images[i].file_name.stem = path.file.stem}

\* the pool the cap is applied to
TestPool ==
    IF self.test_only_target_classes
    THEN extract_images_filename(annotation_file["test"][1], TRUE, 0, FALSE).unique_images
    ELSE listdir_test

(***************************************************************************)
(* C1.  In filtered mode the target set and the background set of a train  *)
(* or valid split are disjoint, and once both passes are over their union  *)
(* is the set of images materialized for the split.                        *)
(* Refuted: an image with a target and a non-target annotation is in both. *)
(***************************************************************************)
C1_TargetAndBackgroundPartition ==
    \A s \in {"train", "valid"} :
        (Selected(s) /\ self.target_classes # <<>>) =>
            /\ unique_images_with_target_classes
                 \cap unique_images_without_target_classes = {}
            /\ phase = "save" =>
                 Materialized(s) = unique_images_with_target_classes
                                     \cup unique_images_without_target_classes

C3_MissingTestAnnotationsSkipped ==
    (/\ self.test_only_target_classes
     /\ annotation_file["test"] = None
     /\ Reported("Processing", "test", 0)) =>
        /\ Reported("The annotation file for the test set was not found", "test", 0)
        /\ out_images["test"] = {}
        /\ pc # "crashed"

(***************************************************************************)
(* C4.  The splits are processed once each in the order train, valid,      *)
(* test; a train or valid split whose annotation file is absent is         *)
(* reported and leaves no image, no label file and no manifest, and the    *)
(* splits after it are still processed.                                    *)
(***************************************************************************)
C4_SplitsInOrder ==
    /\ \E n \in 0..3 : Processed = SubSeq(<<"train", "valid", "test">>, 1, n)
    /\ pc = "train" => Len(Processed) = IF phase = "start" THEN 0 ELSE 1
    /\ pc = "valid" => Len(Processed) = IF phase = "start" THEN 1 ELSE 2
    /\ pc = "test" => Len(Processed) = IF phase = "start" THEN 2 ELSE 3
    /\ pc \in {"done", "crashed"} => Len(Processed) = 3
    /\ \A s \in {"train", "valid"} :
          annotation_file[s] = None =>
             /\ out_images[s] = {}
             /\ DOMAIN label_files[s] = {}
             /\ manifest[s] = None
             /\ Reported("Processing", s, 0) =>
                   Reported("Could not find a COCO-format annotation file", s, 0)

\* train was skipped, valid and test were materialized after it
C4_Witness ==
    /\ pc = "done"
    /\ annotation_file["train"] = None
    /\ Reported("Could not find a COCO-format annotation file", "train", 0)
    /\ manifest["valid"] # None /\ out_images["valid"] # {}
    /\ manifest["test"] # None /\ out_images["test"] # {}

(***************************************************************************)
(* C5.  With target_classes empty every split selects every image: train   *)
(* and valid select all image ids of the catalog with an empty background  *)
(* set, and the test split under test_only_target_classes selects all      *)
(* file names of the test catalog.                                         *)
(* Refuted: the test branch always scans for target annotations, and with  *)
(* no target class none matches: it selects nothing.                       *)
(***************************************************************************)
C5_EmptyTargetsSelectAll ==
    self.target_classes = <<>> =>
        /\ \A s \in {"train", "valid"} :
              Selected(s) =>
                 /\ unique_images_with_target_classes
                      = {coco_data.images[i].id : i \in DOMAIN coco_data.images}
                 /\ unique_images_without_target_classes = {}
        /\ (/\ pc = "test" /\ phase = "copy"
            /\ self.test_only_target_classes
            /\ ~Truthy(self.test_num_images)) =>
                 test_images_to_extract[1]
                   = {annotation_file["test"][1].images[i].file_name :
                        i \in DOMAIN annotation_file["test"][1].images}

(***************************************************************************)
(* C6.  With create_single_class set, every line of every label file of a  *)
(* train/valid split has class index 0, and the lines of an image are      *)
(* exactly its annotations whose category name is a target class: the      *)
(* others, those of the synthetic category included, are dropped.          *)
(***************************************************************************)
C6_MergedLabelsAreClassZero ==
    self.create_single_class =>
        \A path \in DOMAIN label_files["train"] :
            LET content == label_files["train"][path]
            IN /\ Len(content) = Cardinality(TargetAnnotationsAt(path))
               /\ \A j \in DOMAIN content :
                     /\ content[j].category_id = 0
                     /\ \E k \in TargetAnnotationsAt(path) :
                           coco_data.annotations[k].bbox = content[j].bbox

\* a merged label whose class was not first in target_classes, beside a dropped
\* annotation of the synthetic category
C6_Witness ==
    /\ self.create_single_class
    /\ \E path \in DOMAIN label_files["train"] :
          /\ \E k \in TargetAnnotationsAt(path) :
                CategoryName(coco_data, coco_data.annotations[k].category_id)
                  # Some(self.target_classes[1])
          /\ \E k \in DOMAIN coco_data.annotations :
                /\ coco_data.annotations[k].image_id = 1 /\ path.file.stem = "a"
                /\ CategoryName(coco_data, coco_data.annotations[k].category_id)
                     = Some(self.single_class_name)
                /\ k \notin TargetAnnotationsAt(path)
          /\ Len(label_files["train"][path]) = 1

(***************************************************************************)
(* C7.  With create_single_class unset, the class index of every emitted   *)
(* line is the position (from 0) of the first occurrence of the            *)
(* annotation's category name in target_classes, so it lies in             *)
(* 0 .. len(target_classes) - 1.                                           *)
(***************************************************************************)
C7_ClassIndexIsTargetPosition ==
    ~self.create_single_class =>
        \A path \in DOMAIN label_files["train"] :
            \A j \in DOMAIN label_files["train"][path] :
                LET line == label_files["train"][path][j]
                    ann == coco_data.annotations[line.bbox]
                IN /\ line.category_id \in 0..(Len(self.target_classes) - 1)
                   /\ \E c \in DOMAIN coco_data.categories :
                         /\ coco_data.categories[c].id = ann.category_id
                         /\ self.target_classes[line.category_id + 1]
                              = coco_data.categories[c].name
                         /\ \A h \in 1..line.category_id :
                               self.target_classes[h] # coco_data.categories[c].name

\* a line of class 1 for a category whose COCO id is 1
C7_Witness ==
    /\ ~self.create_single_class
    /\ \E path \in DOMAIN label_files["train"] :
          \E j \in DOMAIN label_files["train"][path] :
             /\ label_files["train"][path][j].category_id = 1
             /\ coco_data.annotations[label_files["train"][path][j].bbox].category_id = 1

C9_MissingImageRecordReported ==
    \A s \in {"train", "valid"} :
        (pc = s /\ phase = "save") =>
            \A img_id \in unique_images_with_target_classes
                            \cup unique_images_without_target_classes :
                IF ImageInfo(coco_data, img_id) = None
                THEN \E k \in DOMAIN printed : printed[k].image_id = img_id
                ELSE img_id \in Materialized(s)

(***************************************************************************)
(* C10.  With a test_num_images cap n, 0 <= n <= size of the selected      *)
(* pool, a test split that completes has materialized exactly n distinct   *)
(* images of the pool and its manifest has n entries; the test split has   *)
(* no label file.                                                          *)
(* Refuted: a cap of 0 is read as no cap, and the whole pool is copied.    *)
(***************************************************************************)
C10_CapGivesExactlyN ==
    (/\ pc = "done"
     /\ self.test_num_images # None
     /\ self.test_num_images[1] <= Cardinality(TestPool)) =>
        /\ Cardinality(out_images["test"]) = self.test_num_images[1]
        /\ out_images["test"] \subseteq TestPool
        /\ Len(manifest["test"][1]) = self.test_num_images[1]
        /\ DOMAIN label_files["test"] = {}

(***************************************************************************)
(* C11.  In YOLO mode with target_classes not empty, once both passes of a *)
(* train or valid split are over, the label file of every image of the     *)
(* target set holds one line per annotation of the image that names a      *)
(* target class, so it is not empty; only background images have an empty  *)
(* label file, and no image is recorded twice for the manifest.            *)
(* Refuted: an image of both sets (C1) is converted again by the           *)
(* background pass, which empties its label file and records it again.     *)
(***************************************************************************)
C11_TargetLabelsSurviveBackgroundPass ==
    \A s \in {"train", "valid"} :
        (/\ pc = s /\ phase = "save"
         /\ self.convert_to_yolo
         /\ self.target_classes # <<>>) =>
            /\ \A img_id \in unique_images_with_target_classes :
                  ImageInfo(coco_data, img_id) # None =>
                     LET path == LabelPath(s, ImageInfo(coco_data, img_id)[1].file_name)
                     IN /\ path \in DOMAIN label_files[s]
                        /\ Len(label_files[s][path]) > 0
                        /\ Len(label_files[s][path])
                             = Cardinality(TargetAnnotationsAt(path))
            /\ \A path \in DOMAIN label_files[s] :
                  label_files[s][path] = <<>> =>
                     \E img_id \in unique_images_without_target_classes
                                     \ unique_images_with_target_classes :
                        /\ ImageInfo(coco_data, img_id) # None
                        /\ path = LabelPath(s, ImageInfo(coco_data, img_id)[1].file_name)
            /\ \A i, j \in DOMAIN images_record :
                  i # j => images_record[i] # images_record[j]

====
